---- MODULE Spec2Model ----
(***************************************************************************)
(* Model of api/index.py: the Transperth departures endpoint.              *)
(*                                                                         *)
(* State: the Redis store (one token entry, one departures entry per       *)
(* station, each with its expiry), the wall clock, and the execution       *)
(* context of each HTTP request to /api/departures.  A request is cut into *)
(* steps at its I/O points (Redis get/setex, the page GET, the timetable   *)
(* POST), so that concurrent requests interleave exactly where the code    *)
(* can be preempted by another serverless invocation.                      *)
(*                                                                         *)
(* Time is in seconds of the Perth wall clock: day 0 starts at second 0,   *)
(* which is what datetime.now(PERTH_TZ) reads.  The naive datetime.now()   *)
(* of an instance reads the same clock shifted by tz - PERTH_TZ; the       *)
(* timestamps it stamps (timestamp, cached_at, last_updated) are only ever *)
(* compared with one another, and are kept on the model's clock.  ISO      *)
(* strings are modelled by their form (full datetime with or without UTC   *)
(* offset, date only, time only, garbage, empty) and the day / second of   *)
(* day they denote.  Departure fields that no                              *)
(* property below reads (platform, stops, pattern, route, route_code,      *)
(* time_display) are left out of the departure records.                    *)
(***************************************************************************)
EXTENDS Integers, Sequences, FiniteSets, TLC

(* ------------------------------------------------------------------ *)
(* Program constants                                                   *)
(* ------------------------------------------------------------------ *)
TOKEN_CACHE_TTL == 300
DEPARTURE_CACHE_TTL == 30
\* the [:10] slices of get_departures
MaxPerDirection == 10

(* ------------------------------------------------------------------ *)
(* Bounds of the model                                                 *)
(* ------------------------------------------------------------------ *)
NumRequests == 2
MaxTicks == 2
MaxTrips == 3

Requests == 1..NumRequests
Stations == {"133", "127"}
\* The clock advances by a short step (less than DEPARTURE_CACHE_TTL) or by
\* a long one (ShortStep + LongStep = TOKEN_CACHE_TTL).
ShortStep == DEPARTURE_CACHE_TTL - 5
LongStep == TOKEN_CACHE_TTL - ShortStep
TickSteps == {ShortStep, LongStep}
SecondsPerDay == 24 * 60 * 60
\* UTC offsets, in seconds: PERTH_TZ (UTC+8) and the local zones an instance
\* may run in (UTC, Perth)
PERTH_TZ == 8 * 60 * 60
ServerOffsets == {0, PERTH_TZ}

(* ------------------------------------------------------------------ *)
(* Deployment                                                          *)
(* ------------------------------------------------------------------ *)
\* the UTC offset of the instances' local zone, in seconds
VARIABLE tz

(* ------------------------------------------------------------------ *)
(* JSON / Python values                                                *)
(* ------------------------------------------------------------------ *)
\* None / JSON null.  Every dict is a record without the "json" key.
JNull == [json |-> "null"]
EmptyObj == [k \in {} |-> ""]
IsObject(v) == "json" \notin DOMAIN v
\* dict.get(k, default)
Get(d, k, default) == IF k \in DOMAIN d THEN d[k] ELSE default
\* dict.pop(k, None): the dict without the key
Pop(d, k) == [x \in (DOMAIN d) \ {k} |-> d[x]]
\* d[k] = v on a dict that may or may not hold k
Put(d, k, v) == [x \in (DOMAIN d) \cup {k} |-> IF x = k THEN v ELSE d[x]]

Min(a, b) == IF a <= b THEN a ELSE b
Max(a, b) == IF a >= b THEN a ELSE b

(* ------------------------------------------------------------------ *)
(* ISO time strings                                                    *)
(* ------------------------------------------------------------------ *)
\* form: "datetime" (YYYY-MM-DDTHH:MM:SS), "offset" (the same followed by
\* a UTC offset, +HH:MM), "date" (YYYY-MM-DD), "time" (HH:MM:SS),
\* "garbage" (e.g. not-a-time), "empty" ("").
Iso(form, day, sec) == [form |-> form, day |-> day, sec |-> sec]
IsoOffset(day, sec, off) == [form |-> "offset", day |-> day, sec |-> sec, off |-> off]
EmptyStr == Iso("empty", 0, 0)
GarbageStr == Iso("garbage", 0, 0)
\* 'T' in s
HasT(s) == s.form \in {"datetime", "offset"}
\* s.split('T')[0] of a string that holds a 'T'
DatePart(s) == Iso("date", s.day, 0)
\* datetime.now().strftime('%Y-%m-%d'): the date on the instance's local clock
TodayStr(now) == Iso("date", (now - PERTH_TZ + tz) \div SecondsPerDay, 0)
\* f"{date_part}T{estimated_time}"
Graft(datePart, est) ==
    IF datePart.form = "date" /\ est.form = "time"
    THEN Iso("datetime", datePart.day, est.sec)
    ELSE GarbageStr

\* datetime.fromisoformat, and replace(tzinfo=PERTH_TZ) on a naive value: a
\* full datetime or a date alone (midnight) parses, anything else raises
\* ValueError.  instant is on the Perth wall clock.
FromIso(s) ==
    IF s.form = "datetime" THEN [ok |-> TRUE, instant |-> s.day * SecondsPerDay + s.sec]
    ELSE IF s.form = "offset"
    THEN [ok |-> TRUE, instant |-> s.day * SecondsPerDay + s.sec - s.off + PERTH_TZ]
    ELSE IF s.form = "date" THEN [ok |-> TRUE, instant |-> s.day * SecondsPerDay]
    ELSE [ok |-> FALSE, instant |-> 0]

\* Python's int(x / 60): truncation toward zero
TruncDiv(a, b) == IF a >= 0 THEN a \div b ELSE -((-a) \div b)

\* variant: the difference is not clamped at 0
calculate_minutes_until_unclamped(depart_time_str, now) ==
    LET p == FromIso(depart_time_str)
    IN  IF p.ok
        THEN [ok |-> TRUE, minutes |-> TruncDiv(p.instant - now, 60)]
        ELSE [ok |-> FALSE, minutes |-> 0]

\* calculate_minutes_until: None (ok = FALSE) when the string does not parse
calculate_minutes_until(depart_time_str, now) ==
    LET p == FromIso(depart_time_str)
    IN  IF p.ok
        THEN [ok |-> TRUE, minutes |-> Max(0, TruncDiv(p.instant - now, 60))]
        ELSE [ok |-> FALSE, minutes |-> 0]

(* ------------------------------------------------------------------ *)
(* fetch_all_departures: the trip loop                                 *)
(* ------------------------------------------------------------------ *)
\* the departure instant handed to calculate_minutes_until
ResolveDepartTime(scheduled_time, estimated_time, now) ==
    IF estimated_time.form # "empty"
    THEN IF ~HasT(estimated_time)
         THEN Graft(IF HasT(scheduled_time) THEN DatePart(scheduled_time)
                                            ELSE TodayStr(now),
                    estimated_time)
         ELSE estimated_time
    ELSE scheduled_time

\* a or b on strings
StrOr(a, b) == IF a # "" THEN a ELSE b

\* variant: a record without Direction is taken as direction "1"
DirectionOfDefaultSouth(summary) == Get(summary, "Direction", "1")

\* summary.get('Direction', '0')
DirectionOf(summary) == Get(summary, "Direction", "0")

\* One iteration of the loop: ok = FALSE when the record is skipped (an
\* exception caught by the inner try, or minutes is None).
ParseTrip(trip, now) ==
    LET skip == [ok |-> FALSE, dep |-> EmptyObj]
    IN  IF ~IsObject(trip) THEN skip
        ELSE
        LET summary == Get(trip, "Summary", EmptyObj)
            real_time == Get(trip, "RealTimeInfo", EmptyObj)
        IN  IF ~IsObject(summary) \/ ~IsObject(real_time) THEN skip
            ELSE
            LET headsign == Get(summary, "Headsign", "")
                direction == DirectionOf(summary)
                display_title == Get(trip, "DisplayTripTitle", "")
                scheduled_time == Get(trip, "DepartTime", EmptyStr)
                estimated_time == Get(real_time, "EstimatedDepartureTime", EmptyStr)
                depart_time == ResolveDepartTime(scheduled_time, estimated_time, now)
                m == calculate_minutes_until(depart_time, now)
            IN  IF ~m.ok THEN skip
                ELSE [ok |-> TRUE,
                      dep |-> [destination |-> StrOr(display_title, headsign),
                               minutes |-> m.minutes,
                               direction |-> direction]]

\* variant: the first record that fails ends the loop
RECURSIVE ParseTripsAbort(_, _)
ParseTripsAbort(trips, now) ==
    IF trips = <<>> THEN <<>>
    ELSE LET p == ParseTrip(Head(trips), now)
         IN  IF p.ok THEN <<p.dep>> \o ParseTripsAbort(Tail(trips), now) ELSE <<>>

\* for trip in trips: try ... departures.append(...) except: continue
RECURSIVE ParseTrips(_, _)
ParseTrips(trips, now) ==
    IF trips = <<>> THEN <<>>
    ELSE LET p == ParseTrip(Head(trips), now)
         IN  (IF p.ok THEN <<p.dep>> ELSE <<>>) \o ParseTrips(Tail(trips), now)

\* What fetch_all_departures returns once the POST has been answered.
\* resp.kind = "raise": requests.post raised (timeout, connection error).
\* variant: the result discriminator is not looked at
DeparturesFromAnyResult(resp, now) ==
    IF resp.kind = "raise" THEN <<>>
    ELSE IF resp.status # 200 THEN <<>>
    ELSE IF ~resp.isJson THEN <<>>
    ELSE ParseTrips(Get(resp.data, "trips", <<>>), now)

DeparturesFrom(resp, now) ==
    IF resp.kind = "raise" THEN <<>>
    ELSE IF resp.status # 200 THEN <<>>
    ELSE IF ~resp.isJson THEN <<>>
    ELSE IF Get(resp.data, "result", "") # "success" THEN <<>>
    ELSE ParseTrips(Get(resp.data, "trips", <<>>), now)

(* ------------------------------------------------------------------ *)
(* get_departures: partition, sort, truncate                           *)
(* ------------------------------------------------------------------ *)
\* variant: whatever is not "1" goes with "0"
ByDirectionLoose(deps, dir) ==
    LET keep(d) == IF dir = "0" THEN d.direction # "1" ELSE d.direction = dir
    IN  SelectSeq(deps, keep)

\* [d for d in all_deps if d.get('direction') == dir]
ByDirection(deps, dir) ==
    LET keep(d) == d.direction = dir IN SelectSeq(deps, keep)

\* list.sort(key=minutes): a stable sort
RECURSIVE SortByMinutes(_)
SortByMinutes(s) ==
    IF s = <<>> THEN <<>>
    ELSE LET x == s[Len(s)]
             front == SortByMinutes(SubSeq(s, 1, Len(s) - 1))
             le(e) == e.minutes <= x.minutes
             gt(e) == e.minutes > x.minutes
         IN  SelectSeq(front, le) \o <<x>> \o SelectSeq(front, gt)

\* s[:n]
Take(s, n) == SubSeq(s, 1, Min(n, Len(s)))

\* variant: truncated before it is sorted
DirectionListCutFirst(deps, dir) ==
    SortByMinutes(Take(ByDirection(deps, dir), MaxPerDirection))

\* perth / south of the result: sorted, then cut
DirectionList(deps, dir) == Take(SortByMinutes(ByDirection(deps, dir)), MaxPerDirection)

\* the result dict of get_departures (lines 417-430)
BuildResult(station_id, all_deps, now) ==
    [success |-> TRUE,
     perth |-> DirectionList(all_deps, "0"),
     south |-> DirectionList(all_deps, "1"),
     station_id |-> station_id,
     last_updated |-> now]

(* ------------------------------------------------------------------ *)
(* Token provider                                                      *)
(* ------------------------------------------------------------------ *)
\* fetch_page_tokens on the answer to the GET.  page.kind = "raise": the
\* GET raised.  page.html holds "input" / "meta" when the element with
\* name __RequestVerificationToken exists, with its value / content
\* ("" when the attribute is missing or empty).
fetch_page_tokens(page, now) ==
    IF page.kind = "raise" THEN JNull
    ELSE IF page.status # 200 THEN JNull
    ELSE LET verification_token ==
                 IF "input" \in DOMAIN page.html THEN page.html.input
                 ELSE IF "meta" \in DOMAIN page.html THEN page.html.meta
                 ELSE ""
         IN  IF verification_token # ""
             THEN [verification_token |-> verification_token,
                   module_id |-> "5111",
                   tab_id |-> "248",
                   cookies |-> [jar |-> "session"],
                   timestamp |-> now]
             ELSE JNull

\* variant: the whole token dict is serialised
TokensToCacheWhole(tokens) == tokens

\* the dict cache_tokens serialises (lines 121-126)
TokensToCache(tokens) ==
    [verification_token |-> tokens.verification_token,
     module_id |-> tokens.module_id,
     tab_id |-> tokens.tab_id,
     timestamp |-> tokens.timestamp]

\* the POST fetch_all_departures sends (lines 257-283): the station in the
\* form, the three token headers, and cookies=tokens.get('cookies')
PostRequest(station_id, tokens) ==
    [StationId |-> station_id,
     Requestverificationtoken |-> tokens.verification_token,
     Moduleid |-> tokens.module_id,
     Tabid |-> tokens.tab_id,
     cookies |-> Get(tokens, "cookies", JNull)]

(* ------------------------------------------------------------------ *)
(* Redis                                                               *)
(* ------------------------------------------------------------------ *)
\* GET key: nil once the TTL has run out
RedisGet(entry, now) ==
    IF IsObject(entry) /\ now < entry.expires THEN entry.value ELSE JNull
\* SETEX key ttl value
RedisSetex(ttl, value, now) == [value |-> value, expires |-> now + ttl]

\* variant: the age of the entry is not looked at
get_cached_tokens_no_age(enabled, fail, entry, now) ==
    IF ~enabled THEN JNull
    ELSE IF fail THEN JNull
    ELSE RedisGet(entry, now)

\* get_cached_tokens; fail: redis_client.get raised
get_cached_tokens(enabled, fail, entry, now) ==
    IF ~enabled THEN JNull
    ELSE IF fail THEN JNull
    ELSE LET tokens == RedisGet(entry, now)
         IN  IF IsObject(tokens) /\ now - tokens.timestamp < TOKEN_CACHE_TTL
             THEN tokens
             ELSE JNull

\* variant: every station shares one key
CacheKeyShared(station_id) == "133"

\* cache_key = f'transperth:departures:{station_id}': depStore is indexed by
\* the station of the key
CacheKey(station_id) == station_id

\* variant: an entry is served only in the second it was stamped
get_cached_departures_fresh_only(enabled, fail, entry, now) ==
    IF ~enabled THEN JNull
    ELSE IF fail THEN JNull
    ELSE LET data == RedisGet(entry, now)
         IN  IF IsObject(data) /\ now - data.cached_at < 1 THEN data ELSE JNull

\* variant: an entry stamped DEPARTURE_CACHE_TTL seconds ago or earlier is
\* not served
get_cached_departures_age_checked(enabled, fail, entry, now) ==
    IF ~enabled THEN JNull
    ELSE IF fail THEN JNull
    ELSE LET data == RedisGet(entry, now)
         IN  IF IsObject(data) /\ now - data.cached_at < DEPARTURE_CACHE_TTL
             THEN data
             ELSE JNull

\* get_cached_departures; fail: redis_client.get raised
get_cached_departures(enabled, fail, entry, now) ==
    IF ~enabled THEN JNull
    ELSE IF fail THEN JNull
    ELSE RedisGet(entry, now)

(* ------------------------------------------------------------------ *)
(* Inputs                                                              *)
(* ------------------------------------------------------------------ *)
Page(kind, status, html) == [kind |-> kind, status |-> status, html |-> html]
Pages ==
    { Page("raise", 0, EmptyObj),
      Page("http", 503, [input |-> "tok"]),
      Page("http", 200, EmptyObj),
      Page("http", 200, [input |-> "tok"]),
      Page("http", 200, [meta |-> "tok"]),
      Page("http", 200, [input |-> "", meta |-> "tok"]) }

Trip(title, dir, sched, est) ==
    [DisplayTripTitle |-> title,
     Summary |-> [Headsign |-> "Perth", Direction |-> dir],
     DepartTime |-> sched,
     RealTimeInfo |-> [EstimatedDepartureTime |-> est]]
\* a trip whose Summary carries no Direction
TripNoDirection(title, sched) ==
    [DisplayTripTitle |-> title,
     Summary |-> [Headsign |-> "Perth"],
     DepartTime |-> sched]
\* a trip whose Summary is JSON null
TripNullSummary(title, sched) ==
    [DisplayTripTitle |-> title, Summary |-> JNull, DepartTime |-> sched]

At(sec) == Iso("datetime", 0, sec)

\* a payload mixing directions, a tie, an estimate without date, and
\* records that do not parse
MixedTrips ==
    << Trip("A", "0", At(600), EmptyStr),
       TripNullSummary("B", At(300)),
       Trip("C", "1", At(900), Iso("time", 0, 480)),
       Trip("D", "0", At(120), EmptyStr),
       Trip("E", "0", GarbageStr, EmptyStr),
       TripNoDirection("F", At(120)),
       Trip("G", "1", At(480), EmptyStr),
       JNull >>

\* more than MaxPerDirection trips of one direction, latest first, with
\* ties, and one trip of the other direction
LongTrips ==
    [i \in 1..(MaxPerDirection + 2) |->
        Trip(IF i % 2 = 0 THEN "L" ELSE "M", "0",
             At(60 * ((MaxPerDirection + 3 - i) \div 2) + 1200), EmptyStr)]
    \o << Trip("S", "1", At(300), EmptyStr) >>

Api(kind, status, isJson, data) ==
    [kind |-> kind, status |-> status, isJson |-> isJson, data |-> data]
ApiSuccess(trips) == Api("http", 200, TRUE, [result |-> "success", trips |-> trips])

\* the answers of the timetable endpoint under Spec
ApiResponses == { ApiSuccess(MixedTrips), ApiSuccess(LongTrips) }

\* the answers of the timetable endpoint under SpecSeq
AllApiResponses ==
    ApiResponses \cup
    { Api("http", 200, TRUE, [result |-> "failure", trips |-> MixedTrips]),
      Api("raise", 0, FALSE, EmptyObj),
      Api("http", 500, TRUE, [result |-> "success", trips |-> MixedTrips]),
      Api("http", 200, FALSE, EmptyObj),
      Api("http", 200, TRUE, [result |-> "success"]) }

\* the answers of the timetable endpoint under SpecParse: every sequence of
\* at most MaxTrips records
TripUniverse ==
    { Trip("A", "0", At(600), EmptyStr),
      Trip("C", "1", At(900), Iso("time", 0, 480)),
      Trip("D", "1", At(120), GarbageStr),
      Trip("E", "0", GarbageStr, EmptyStr),
      TripNullSummary("B", At(300)),
      TripNoDirection("F", At(120)),
      Trip("H", "2", At(700), EmptyStr),
      JNull }
TripSeqs == UNION { [1..n -> TripUniverse] : n \in 0..MaxTrips }
ParseApiResponses == { ApiSuccess(t) : t \in TripSeqs }

(* ------------------------------------------------------------------ *)
(* State                                                               *)
(* ------------------------------------------------------------------ *)
VARIABLES
    now,          \* the wall clock, in seconds
    ticks,        \* how many times the clock has advanced
    tokenStore,   \* Redis key transperth:tokens: JNull or [value, expires]
    depStore,     \* Redis keys transperth:departures:<station_id>
    req           \* the execution context of each request

vars == <<now, tz, ticks, tokenStore, depStore, req>>

\* pc: idle, tokens, page, cache_tokens, post, cache_departures, done.
\* redis: REDIS_ENABLED of the instance that serves the request.
\* sent is the POST the request issued, api the answer to it.
\* hit, gets, posts, failed, after, tCall, tDone record what the request did:
\* whether it was served from the cache, the GETs and POSTs it issued, whether
\* a Redis call of it raised, the requests answered before it arrived, when
\* it arrived and when it was answered.
IdleReq ==
    [pc |-> "idle", station |-> "133", redis |-> FALSE,
     tokens |-> JNull, sent |-> JNull, api |-> JNull,
     all_deps |-> <<>>, result |-> JNull,
     status |-> 0, body |-> JNull, hit |-> FALSE,
     gets |-> 0, posts |-> 0, failed |-> FALSE, after |-> {},
     tCall |-> 0, tDone |-> 0]

\* The deployment runs its instances in UTC.
Init ==
    /\ tz = 0
    /\ now = 0
    /\ ticks = 0
    /\ tokenStore = JNull
    /\ depStore = [s \in Stations |-> JNull]
    /\ req = [r \in Requests |-> IdleReq]

(* ------------------------------------------------------------------ *)
(* Steps of a request                                                  *)
(* ------------------------------------------------------------------ *)
SetReq(r, v) == req' = [req EXCEPT ![r] = v]

\* return jsonify(body): the request is answered with a 200
Respond(q, body) ==
    [q EXCEPT !.pc = "done", !.status = 200, !.body = body, !.tDone = now]

\* the except clause of get_departures: a 500 with success False
RespondError(q) ==
    [q EXCEPT !.pc = "done", !.status = 500, !.tDone = now,
              !.body = [success |-> FALSE, error |-> "error"]]

\* What cache_departures leaves in the caller's dict before the SETEX
\* (line 158): data is the result object itself, the key is set in place.
StampCachedAt(data, t) == Put(data, "cached_at", t)

\* variant: a result without departures is answered without being cached
FinishMissSkipEmpty(q, all_deps) ==
    LET result == BuildResult(q.station, all_deps, now)
        q1 == [q EXCEPT !.all_deps = all_deps]
    IN  IF q.redis /\ all_deps # <<>>
        THEN [q1 EXCEPT !.pc = "cache_departures",
                        !.result = Put(result, "cached_at", now)]
        ELSE Respond([q1 EXCEPT !.result = result], result)

\* get_departures from line 415 on, once fetch_all_departures has returned
\* all_deps: build the result, and enter cache_departures.  Without Redis
\* cache_departures returns at once and the result is the response.
FinishMiss(q, all_deps) ==
    LET result == BuildResult(q.station, all_deps, now)
        q1 == [q EXCEPT !.all_deps = all_deps]
    IN  IF q.redis
        THEN [q1 EXCEPT !.pc = "cache_departures",
                        !.result = StampCachedAt(result, now)]
        ELSE Respond([q1 EXCEPT !.result = result], result)

\* variant: a missing token reaches the except clause of get_departures
NoTokenRaises(q) == RespondError(q)

\* variant: the POST is issued although no token was obtained
NoTokenPostsAnyway(q) ==
    [q EXCEPT !.pc = "post",
              !.tokens = [verification_token |-> "", module_id |-> "5111",
                          tab_id |-> "248"]]

\* fetch_all_departures, lines 246-248: without a token it returns []
NoToken(q) == FinishMiss(q, <<>>)

\* get_departures, lines 404-407: the body of a hit
HitBody(cached_result) == Pop(cached_result, "cached_at")

\* A request arrives: get_departures up to the answer of get_cached_departures.
\* A hit is answered at once.
GetDepartures(r) ==
    /\ req[r].pc = "idle"
    /\ \A q \in Requests : q < r => req[q].pc # "idle"
    /\ \E station_id \in Stations, enabled \in BOOLEAN, fail \in BOOLEAN :
         /\ fail => enabled
         /\ LET cached_result ==
                    get_cached_departures(enabled, fail, depStore[CacheKey(station_id)], now)
                q == [req[r] EXCEPT !.station = station_id, !.redis = enabled,
                                    !.tCall = now,
                                    !.after = {o \in Requests : req[o].pc = "done"},
                                    !.failed = fail]
            IN  IF IsObject(cached_result)
                THEN SetReq(r, Respond([q EXCEPT !.hit = TRUE], HitBody(cached_result)))
                ELSE SetReq(r, [q EXCEPT !.pc = "tokens"])
    /\ UNCHANGED <<now, tz, ticks, tokenStore, depStore>>

\* fetch_all_departures, lines 236-241: the token cache is read
GetCachedTokens(r) ==
    /\ req[r].pc = "tokens"
    /\ \E fail \in BOOLEAN :
         /\ fail => req[r].redis
         /\ LET tokens == get_cached_tokens(req[r].redis, fail, tokenStore, now)
                q == [req[r] EXCEPT !.failed = @ \/ fail]
            IN  IF IsObject(tokens)
                THEN SetReq(r, [q EXCEPT !.pc = "post", !.tokens = tokens])
                ELSE SetReq(r, [q EXCEPT !.pc = "page"])
    /\ UNCHANGED <<now, tz, ticks, tokenStore, depStore>>

\* fetch_all_departures, lines 242-248: the page is fetched.  With a token,
\* cache_tokens stamps it (line 119) and goes on to the SETEX; without one
\* fetch_all_departures returns [].
FetchPageTokens(r, pages) ==
    /\ req[r].pc = "page"
    /\ \E page \in pages :
         LET tokens == fetch_page_tokens(page, now)
             q == [req[r] EXCEPT !.gets = @ + 1, !.tokens = tokens]
         IN  IF IsObject(tokens) /\ tokens.verification_token # ""
             THEN SetReq(r, [q EXCEPT !.pc = IF q.redis THEN "cache_tokens" ELSE "post"])
             ELSE SetReq(r, NoToken(q))
    /\ UNCHANGED <<now, tz, ticks, tokenStore, depStore>>

\* cache_tokens, line 127: the SETEX, which may raise
CacheTokens(r) ==
    /\ req[r].pc = "cache_tokens"
    /\ \E fail \in BOOLEAN :
         /\ tokenStore' = IF fail THEN tokenStore
                          ELSE RedisSetex(TOKEN_CACHE_TTL, TokensToCache(req[r].tokens), now)
         /\ SetReq(r, [req[r] EXCEPT !.pc = "post", !.failed = @ \/ fail])
    /\ UNCHANGED <<now, tz, ticks, depStore>>

\* fetch_all_departures, lines 250-390: the POST and the trip loop, then
\* get_departures to the entry of cache_departures
FetchTimetable(r, apis) ==
    /\ req[r].pc = "post"
    /\ \E resp \in apis :
         LET q == [req[r] EXCEPT !.posts = @ + 1, !.api = resp,
                                 !.sent = PostRequest(req[r].station, req[r].tokens)]
         IN  SetReq(r, FinishMiss(q, DeparturesFrom(resp, now)))
    /\ UNCHANGED <<now, tz, ticks, tokenStore, depStore>>

\* variant: the new lists are appended to those of the entry in place
DepartureEntryMerged(old, data) ==
    IF IsObject(old)
    THEN [data EXCEPT !.perth = old.value.perth \o @, !.south = old.value.south \o @]
    ELSE data

\* the value cache_departures hands to SETEX (line 159): json.dumps(data),
\* whatever the key held
DepartureEntry(old, data) == data

\* variant: an exception of the SETEX reaches the except clause of get_departures
SetexRaised500(q) == RespondError(q)

\* cache_departures, lines 161-162: the exception is printed, and
\* get_departures returns jsonify(result)
SetexRaised(q) == Respond(q, q.result)

\* cache_departures, line 159: the SETEX, which may raise; then the response
CacheDepartures(r) ==
    /\ req[r].pc = "cache_departures"
    /\ \E fail \in BOOLEAN :
         LET q == [req[r] EXCEPT !.failed = @ \/ fail]
         IN  /\ depStore' =
                  IF fail THEN depStore
                  ELSE [depStore EXCEPT ![CacheKey(q.station)] =
                           RedisSetex(DEPARTURE_CACHE_TTL, DepartureEntry(@, q.result), now)]
             /\ SetReq(r, IF fail THEN SetexRaised(q) ELSE Respond(q, q.result))
    /\ UNCHANGED <<now, tz, ticks, tokenStore>>

\* Time passes; Redis drops the keys whose TTL has run out.
Expire(entry, t) == IF IsObject(entry) /\ t < entry.expires THEN entry ELSE JNull

\* Both HTTP calls carry timeout=10 (lines 174, 282): a request is not in
\* flight across the long step.
Tick ==
    /\ \E r \in Requests : req[r].pc # "done"
    /\ \E d \in TickSteps :
         /\ ticks < MaxTicks
         /\ d = LongStep => \A r \in Requests : req[r].pc \in {"idle", "done"}
         /\ ticks' = ticks + 1
         /\ now' = now + d
         /\ tokenStore' = Expire(tokenStore, now + d)
         /\ depStore' = [s \in Stations |-> Expire(depStore[s], now + d)]
    /\ UNCHANGED <<tz, req>>

(* ------------------------------------------------------------------ *)
(* Spec: concurrent requests, the clock, Redis calls that may raise    *)
(* ------------------------------------------------------------------ *)
Next ==
    \/ \E r \in Requests : GetDepartures(r)
    \/ \E r \in Requests : GetCachedTokens(r)
    \/ \E r \in Requests : FetchPageTokens(r, Pages)
    \/ \E r \in Requests : CacheTokens(r)
    \/ \E r \in Requests : FetchTimetable(r, ApiResponses)
    \/ \E r \in Requests : CacheDepartures(r)
    \/ Tick

Spec == Init /\ [][Next]_vars

(* ------------------------------------------------------------------ *)
(* SpecSeq: requests served one after the other, over a store left by  *)
(* earlier requests, with every answer of the timetable endpoint       *)
(* ------------------------------------------------------------------ *)
\* the entry an earlier request for the station wrote at time t
SeedDepartures(station_id, resp, t) ==
    RedisSetex(DEPARTURE_CACHE_TTL,
               StampCachedAt(BuildResult(station_id, DeparturesFrom(resp, t), t), t), t)
\* the entry an earlier request wrote at time t
SeedTokens(t) ==
    RedisSetex(TOKEN_CACHE_TTL,
               TokensToCache(fetch_page_tokens(Page("http", 200, [input |-> "tok"]), t)), t)

InitSeq ==
    /\ tz = 0
    /\ now = 0
    /\ ticks = 0
    /\ tokenStore \in {JNull, SeedTokens(0)}
    /\ \E e \in {JNull} \cup { SeedDepartures("133", resp, 0) : resp \in ApiResponses } :
         depStore = [s \in Stations |-> IF s = "133" THEN e ELSE JNull]
    /\ req = [r \in Requests |-> IdleReq]

\* no other request is in flight
Quiet(r) == \A o \in Requests \ {r} : req[o].pc \in {"idle", "done"}

NextSeq ==
    \/ \E r \in Requests : Quiet(r) /\ GetDepartures(r)
    \/ \E r \in Requests : Quiet(r) /\ GetCachedTokens(r)
    \/ \E r \in Requests : Quiet(r) /\ FetchPageTokens(r, Pages)
    \/ \E r \in Requests : Quiet(r) /\ CacheTokens(r)
    \/ \E r \in Requests : Quiet(r) /\ FetchTimetable(r, AllApiResponses)
    \/ \E r \in Requests : Quiet(r) /\ CacheDepartures(r)
    \/ Tick

SpecSeq == InitSeq /\ [][NextSeq]_vars

(* ------------------------------------------------------------------ *)
(* SpecParse: the trip loop over every payload of at most MaxTrips     *)
(* records                                                             *)
(* ------------------------------------------------------------------ *)
\* a request that has just fetched its token, on an instance without Redis
InitParse ==
    /\ tz \in ServerOffsets
    /\ now \in {0, 90, 500}
    /\ ticks = 0
    /\ tokenStore = JNull
    /\ depStore = [s \in Stations |-> JNull]
    /\ req = [r \in Requests |->
                IF r = 1
                THEN [IdleReq EXCEPT !.pc = "post", !.gets = 1,
                         !.tokens = fetch_page_tokens(Page("http", 200, [input |-> "tok"]), now)]
                ELSE IdleReq]

NextParse == FetchTimetable(1, ParseApiResponses)

SpecParse == InitParse /\ [][NextParse]_vars

(* ------------------------------------------------------------------ *)
(* SpecTime: the trip loop on one record, over the forms and instants  *)
(* of its scheduled and estimated times, at several times of day, on   *)
(* instances in UTC and in Perth time                                  *)
(* ------------------------------------------------------------------ *)
\* second of the day of HH:MM:SS
Clock(h, m, sec) == (h * 60 + m) * 60 + sec

\* DepartTime: 10:05, 09:55, 09:59:30 and 00:01 of the next day, 10:05 Perth
\* written in UTC, a time without date, nothing, not a time
SchedStrs ==
    { At(Clock(10, 5, 0)), At(Clock(9, 55, 0)), At(Clock(9, 59, 30)),
      Iso("datetime", 1, Clock(0, 1, 0)),
      IsoOffset(0, Clock(2, 5, 0), 0),
      Iso("time", 0, Clock(10, 5, 0)),
      EmptyStr, GarbageStr }
\* EstimatedDepartureTime: nothing, 10:07 and 04:58 without date, a full
\* datetime 119 s after 10:00, 10:07 Perth written in UTC, not a time
EstStrs ==
    { EmptyStr,
      Iso("time", 0, Clock(10, 7, 0)),
      Iso("time", 0, Clock(4, 58, 0)),
      At(Clock(10, 1, 59)),
      IsoOffset(0, Clock(2, 7, 0), 0),
      GarbageStr }
TimeTrips == { Trip("T", "0", s, e) : s \in SchedStrs, e \in EstStrs }
TimeApiResponses == { ApiSuccess(<<t>>) : t \in TimeTrips }
\* 10:00 and 04:50 of day 0 (04:50 is the day before in UTC), 23:59:30
TimeNows == { Clock(10, 0, 0), Clock(4, 50, 0), Clock(23, 59, 30) }

InitTime ==
    /\ tz \in ServerOffsets
    /\ now \in TimeNows
    /\ ticks = 0
    /\ tokenStore = JNull
    /\ depStore = [s \in Stations |-> JNull]
    /\ req = [r \in Requests |->
                IF r = 1
                THEN [IdleReq EXCEPT !.pc = "post", !.gets = 1,
                         !.tokens = fetch_page_tokens(Page("http", 200, [input |-> "tok"]), now)]
                ELSE IdleReq]

NextTime == FetchTimetable(1, TimeApiResponses)

SpecTime == InitTime /\ [][NextTime]_vars

(* ------------------------------------------------------------------ *)
(* Properties                                                          *)
(* ------------------------------------------------------------------ *)
Done(r) == req[r].pc = "done"
Miss(r) == Done(r) /\ ~req[r].hit
EmptySuccess(r) ==
    /\ req[r].status = 200
    /\ req[r].body.success = TRUE
    /\ req[r].body.perth = <<>>
    /\ req[r].body.south = <<>>

\* the request missed the departure cache, found no fresh cached token,
\* fetched the page and got no token out of it
NoTokenObtained(r) ==
    Miss(r) /\ req[r].gets = 1 /\ ~IsObject(req[r].tokens)

\* C1 as stated: a request that misses the departure cache and obtains no
\* token is answered with a 500 and success = false.
C1Original ==
    \A r \in Requests :
        NoTokenObtained(r) => req[r].status = 500 /\ req[r].body.success = FALSE

\* C1 as amended: a request that misses the departure cache and obtains no
\* token issues no POST and is answered with a 200, success = true and both
\* direction lists empty.
C1Amended ==
    \A r \in Requests :
        NoTokenObtained(r) => req[r].posts = 0 /\ EmptySuccess(r)

C1Witness == \E r \in Requests : NoTokenObtained(r)

\* C2 as stated: no response body of get_departures, from a hit or from a
\* miss, with or without Redis, holds the cached_at field.
C2NoCachedAt ==
    \A r \in Requests : Done(r) => "cached_at" \notin DOMAIN req[r].body

\* r2 is the call that follows r1, both for the same station, on instances
\* with Redis, no Redis call of either raised, and r2 arrived less than
\* DEPARTURE_CACHE_TTL seconds after r1 was answered.  (Under SpecSeq
\* requests are served one after the other, in the order of their numbers.)
Consecutive(r1, r2) ==
    /\ r2 = r1 + 1
    /\ Done(r1) /\ Done(r2)
    /\ r1 \in req[r2].after
    /\ req[r1].station = req[r2].station
    /\ req[r1].redis /\ req[r2].redis
    /\ ~req[r1].failed /\ ~req[r2].failed
    /\ req[r2].tCall - req[r1].tDone < DEPARTURE_CACHE_TTL

ServedFromCache(r) ==
    req[r].hit /\ req[r].gets = 0 /\ req[r].posts = 0 /\ req[r].tDone = req[r].tCall

\* C3 as stated: of two consecutive calls for a station within 30 s, with a
\* working store, at most one issues a POST, and the second is a cache hit
\* without token fetch or upstream call.
C3Original ==
    \A r1, r2 \in Requests :
        Consecutive(r1, r2) =>
            /\ req[r1].posts + req[r2].posts <= 1
            /\ ServedFromCache(r2)

\* C3 as amended: of two consecutive calls for a station within 30 s, with a
\* working store, at most one issues a POST; when the first was a miss, the
\* second is a cache hit that returns the result the first stored, without
\* token fetch or upstream call.
C3Amended ==
    \A r1, r2 \in Requests :
        Consecutive(r1, r2) =>
            /\ req[r1].posts + req[r2].posts <= 1
            /\ ~req[r1].hit =>
                  /\ ServedFromCache(r2)
                  /\ req[r2].body = Pop(req[r1].result, "cached_at")

C3Witness ==
    \E r1, r2 \in Requests :
        /\ Consecutive(r1, r2)
        /\ ~req[r1].hit /\ req[r1].posts = 1
        /\ req[r2].hit
        /\ req[r2].tCall > req[r1].tDone

\* the token of the request came from the token cache (no cookies with it)
TokenFromCache(r) ==
    IsObject(req[r].tokens) /\ "cookies" \notin DOMAIN req[r].tokens

\* the step in which request r reads the token cache
C4Read(r) ==
    (req[r].pc = "tokens" /\ req'[r].pc # "tokens") =>
        LET fresh == /\ IsObject(tokenStore)
                     /\ now - tokenStore.value.timestamp < TOKEN_CACHE_TTL
        IN  /\ (req[r].redis /\ ~req'[r].failed /\ fresh) =>
                  /\ req'[r].pc = "post"
                  /\ req'[r].tokens = tokenStore.value
                  /\ req'[r].gets = 0
            /\ (~req[r].redis \/ ~fresh) =>
                  /\ req'[r].pc = "page"
                  /\ ~IsObject(req'[r].tokens)

\* the GETs a request has issued, by where it stands
C4Gets(r) ==
    /\ req[r].pc \in {"idle", "tokens", "page"} => req[r].gets = 0
    /\ req[r].pc = "cache_tokens" => req[r].gets = 1
    /\ (req[r].pc \in {"post", "cache_departures"} \/ Miss(r)) =>
          req[r].gets = IF TokenFromCache(r) THEN 0 ELSE 1

\* C4: a token read that finds an entry of age < 300 s returns that entry and
\* the request issues no GET; when the store holds no entry, or one of age
\* >= 300 s, or the instance has no Redis, no token is returned and the
\* request issues exactly one GET.
C4TokenRead ==
    [][\A r \in Requests : C4Read(r) /\ C4Gets(r)']_vars

\* a request has just turned to the page although the store holds an entry:
\* the entry is 300 s old or older
C4Witness ==
    \E r \in Requests :
        /\ req[r].pc = "page" /\ req[r].redis /\ ~req[r].failed
        /\ IsObject(tokenStore)
        /\ now - tokenStore.value.timestamp >= TOKEN_CACHE_TTL

DirIdx(deps, dir) == {i \in 1..Len(deps) : deps[i].direction = dir}
\* how many departures of the direction come before deps[i]: those with
\* fewer minutes, and those with the same minutes that upstream sent earlier
Rank(deps, dir, i) ==
    Cardinality({j \in DirIdx(deps, dir) :
                    \/ deps[j].minutes < deps[i].minutes
                    \/ deps[j].minutes = deps[i].minutes /\ j < i})
SmallestInUpstreamOrder(list, deps, dir) ==
    /\ Len(list) = Min(MaxPerDirection, Cardinality(DirIdx(deps, dir)))
    /\ \A i \in DirIdx(deps, dir) :
          Rank(deps, dir, i) < MaxPerDirection => list[Rank(deps, dir, i) + 1] = deps[i]
Ascending(list) ==
    \A i \in 1..(Len(list) - 1) : list[i].minutes <= list[i + 1].minutes

\* C5: in every success response each direction list has at most 10 entries
\* in ascending order of minutes; on a miss it is the 10 departures of that
\* direction with the fewest minutes, ties in upstream order.
C5Lists ==
    \A r \in Requests :
        (Done(r) /\ req[r].status = 200) =>
            /\ Len(req[r].body.perth) <= MaxPerDirection
            /\ Len(req[r].body.south) <= MaxPerDirection
            /\ Ascending(req[r].body.perth)
            /\ Ascending(req[r].body.south)
            /\ ~req[r].hit =>
                  /\ SmallestInUpstreamOrder(req[r].body.perth, req[r].all_deps, "0")
                  /\ SmallestInUpstreamOrder(req[r].body.south, req[r].all_deps, "1")

\* a miss whose upstream answer held more than 10 departures of a direction,
\* out of order and with ties
C5Witness ==
    \E r \in Requests :
        /\ Miss(r)
        /\ Cardinality(DirIdx(req[r].all_deps, "0")) > MaxPerDirection
        /\ Len(req[r].body.perth) = MaxPerDirection
        /\ ~Ascending(req[r].all_deps)
        /\ \E i \in 1..(MaxPerDirection - 1) :
              req[r].body.perth[i].minutes = req[r].body.perth[i + 1].minutes

\* the timetable endpoint answered with a status other than 200, or with a
\* JSON body whose result is not "success"
UpstreamFailed(api) ==
    /\ IsObject(api)
    /\ api.kind = "http"
    /\ \/ api.status # 200
       \/ api.isJson /\ Get(api.data, "result", "") # "success"

\* C6: with a token, when the timetable query fails, fetch_all_departures
\* returns the empty list and the response is a 200 with success = true and
\* both direction lists empty.
C6UpstreamFailure ==
    \A r \in Requests :
        (Miss(r) /\ IsObject(req[r].tokens) /\ UpstreamFailed(req[r].api)) =>
            /\ req[r].posts = 1
            /\ req[r].all_deps = <<>>
            /\ EmptySuccess(r)

C6Witness ==
    \E r \in Requests :
        /\ Miss(r) /\ IsObject(req[r].tokens)
        /\ UpstreamFailed(req[r].api)
        /\ req[r].api.status = 200
        /\ Get(req[r].api.data, "result", "") = "failure"
        /\ ParseTrips(Get(req[r].api.data, "trips", <<>>), req[r].body.last_updated) # <<>>

\* a record the loop can turn into a departure at time t: an object whose
\* Summary and RealTimeInfo are objects and whose departure instant parses
WellFormed(trip, t) ==
    /\ IsObject(trip)
    /\ IsObject(Get(trip, "Summary", EmptyObj))
    /\ IsObject(Get(trip, "RealTimeInfo", EmptyObj))
    /\ FromIso(ResolveDepartTime(
                  Get(trip, "DepartTime", EmptyStr),
                  Get(Get(trip, "RealTimeInfo", EmptyObj),
                      "EstimatedDepartureTime", EmptyStr),
                  t)).ok

\* C7: the departures of a successful answer are those of its well-formed
\* records, one each, in upstream order, whatever records surround them;
\* the request is answered with a 200.
C7Independent ==
    \A r \in Requests :
        (Miss(r) /\ req[r].posts = 1 /\ req[r].api.kind = "http"
           /\ req[r].api.status = 200 /\ req[r].api.isJson
           /\ Get(req[r].api.data, "result", "") = "success") =>
            LET trips == Get(req[r].api.data, "trips", <<>>)
                t == req[r].body.last_updated
                good == {i \in 1..Len(trips) : WellFormed(trips[i], t)}
                pos(i) == Cardinality({j \in good : j <= i})
            IN  /\ req[r].status = 200
                /\ Len(req[r].all_deps) = Cardinality(good)
                /\ \A i \in good :
                      req[r].all_deps[pos(i)] = ParseTrip(trips[i], t).dep

\* a well-formed record between one that is not an object and one whose
\* departure time does not parse
C7Witness ==
    \E r \in Requests :
        /\ Miss(r) /\ req[r].posts = 1
        /\ LET trips == Get(req[r].api.data, "trips", <<>>)
           IN  /\ Len(trips) = 3
               /\ trips[1] = JNull
               /\ WellFormed(trips[2], req[r].body.last_updated)
               /\ trips[3] = Trip("E", "0", GarbageStr, EmptyStr)
        /\ Len(req[r].all_deps) = 1

\* the step in which a Redis call of request r raises, for the first time
\* in the request
C8Raise(r) ==
    (~req[r].failed /\ req'[r].failed) =>
        CASE req[r].pc = "idle" ->
                 req'[r].pc = "tokens" /\ ~req'[r].hit
          [] req[r].pc = "tokens" ->
                 req'[r].pc = "page"
          [] req[r].pc = "cache_tokens" ->
                 /\ req'[r].pc = "post"
                 /\ req'[r].tokens = req[r].tokens
                 /\ tokenStore' = tokenStore
          [] req[r].pc = "cache_departures" ->
                 /\ req'[r].pc = "done"
                 /\ req'[r].status = 200
                 /\ Pop(req'[r].body, "cached_at") =
                        BuildResult(req[r].station, req[r].all_deps,
                                    req[r].result.last_updated)
                 /\ depStore' = depStore
          [] OTHER -> FALSE

C8Answered(r) ==
    Done(r) => req[r].status = 200 /\ req[r].body.success = TRUE

Wrote(w, s) == Miss(w) /\ req[w].redis /\ req[w].station = s

\* C9: the entry of a station is absent or is the complete result computed
\* by one request for that station, with that request's TTL, and no request
\* whose write went through was answered after that one.
C9Entry ==
    \A s \in Stations :
        IsObject(depStore[s]) =>
            \E w \in Requests :
                /\ Wrote(w, s)
                /\ depStore[s].value = req[w].result
                /\ DOMAIN depStore[s].value =
                      {"success", "perth", "south", "station_id", "last_updated", "cached_at"}
                /\ depStore[s].value.station_id = s
                /\ depStore[s].expires = req[w].tDone + DEPARTURE_CACHE_TTL
                /\ \A o \in Requests :
                      (Wrote(o, s) /\ ~req[o].failed) => req[o].tDone <= req[w].tDone

\* two requests for a station that were in flight together, both missed,
\* fetched different results and wrote them
C9Witness ==
    \E s \in Stations, a, b \in Requests :
        /\ a # b
        /\ Wrote(a, s) /\ Wrote(b, s)
        /\ ~req[a].failed /\ ~req[b].failed
        /\ a \notin req[b].after /\ b \notin req[a].after
        /\ req[a].result.perth # req[b].result.perth
        /\ req[a].result.perth # <<>> /\ req[b].result.perth # <<>>
        /\ IsObject(depStore[s])

\* a and b got the same answers from the upstream at the same instant
SameUpstream(a, b) ==
    /\ IsObject(req[a].tokens) = IsObject(req[b].tokens)
    /\ req[a].api = req[b].api
    /\ req[a].result.last_updated = req[b].result.last_updated

\* a ran without Redis, b missed the cache on an instance with Redis
WithoutAndWith(a, b) ==
    /\ Miss(a) /\ Miss(b)
    /\ ~req[a].redis /\ req[b].redis
    /\ req[a].station = req[b].station
    /\ SameUpstream(a, b)

\* C10 as stated: for the same upstream answers a request without Redis and
\* a cache miss with Redis return the same body.
C10SameBody ==
    \A a, b \in Requests : WithoutAndWith(a, b) => req[a].body = req[b].body

\* the two bodies differ in the cached_at field alone
C10SameUpToMetadata ==
    \A a, b \in Requests :
        WithoutAndWith(a, b) => req[a].body = Pop(req[b].body, "cached_at")

\* the HTTP calls request r issues in a step: a GET is the first call of the
\* request, a POST follows a token and is not repeated
C11Step(r) ==
    /\ req'[r].gets # req[r].gets =>
          /\ req[r].gets = 0 /\ req'[r].gets = 1
          /\ req[r].posts = 0 /\ req'[r].posts = 0
    /\ req'[r].posts # req[r].posts =>
          /\ req[r].posts = 0 /\ req'[r].posts = 1
          /\ req'[r].gets = req[r].gets
          /\ IsObject(req[r].tokens)
          /\ req[r].tokens.verification_token # ""
          /\ TokenFromCache(r) \/ req[r].gets = 1

C11Counts(r) ==
    /\ req[r].gets <= 1
    /\ req[r].posts <= 1
    /\ req[r].posts = 1 => IsObject(req[r].tokens)
    /\ (Done(r) /\ ~IsObject(req[r].tokens)) => req[r].posts = 0

\* C11: a request issues at most one GET and at most one POST, the GET
\* before the POST; the POST is issued only with a token, from the cache or
\* from the GET, and never when no token was obtained.
C11Sequential ==
    [][\A r \in Requests : C11Step(r) /\ C11Counts(r)']_vars

\* a request that issued its GET, then its POST, and one that issued its
\* GET, got no token and issued no POST
C11Witness ==
    \E a, b \in Requests :
        /\ Miss(a) /\ req[a].gets = 1 /\ req[a].posts = 1
        /\ Miss(b) /\ req[b].gets = 1 /\ req[b].posts = 0 /\ ~IsObject(req[b].tokens)

\* (diff / 60) floored, then clamped at 0
FloorClamp(diff) == IF diff \div 60 < 0 THEN 0 ELSE diff \div 60

\* the one record of the answer request r got, when it is an object
OnlyTrip(r) == Get(req[r].api.data, "trips", <<>>)[1]
OneTrip(r) ==
    /\ Miss(r) /\ req[r].posts = 1
    /\ IsObject(req[r].api) /\ req[r].api.kind = "http" /\ req[r].api.status = 200
    /\ req[r].api.isJson /\ Get(req[r].api.data, "result", "") = "success"
    /\ Len(Get(req[r].api.data, "trips", <<>>)) = 1
    /\ IsObject(OnlyTrip(r))
    /\ DOMAIN OnlyTrip(r) = DOMAIN Trip("", "", EmptyStr, EmptyStr)
\* its scheduled and estimated times, and the instant of the computation
Sched(r) == OnlyTrip(r).DepartTime
Est(r) == OnlyTrip(r).RealTimeInfo.EstimatedDepartureTime
ComputedAt(r) == req[r].result.last_updated

NonNegative(list) == \A i \in 1..Len(list) : list[i].minutes \in Nat

\* C12: for a timestamp without offset, read as a Perth wall-clock time, the
\* minutes are (departTime - now) / 60 floored and clamped at 0: 5 for a
\* departure 5 minutes ahead, 0 for one already past; the minutes of every
\* departure of every response are a natural number.
C12Minutes ==
    \A r \in Requests :
        /\ (Done(r) /\ req[r].status = 200) =>
              NonNegative(req[r].body.perth) /\ NonNegative(req[r].body.south)
        /\ (OneTrip(r) /\ Est(r) = EmptyStr /\ Sched(r).form = "datetime") =>
              /\ Len(req[r].all_deps) = 1
              /\ req[r].all_deps[1].minutes =
                    FloorClamp(Sched(r).day * SecondsPerDay + Sched(r).sec - ComputedAt(r))
              /\ (ComputedAt(r) = Clock(10, 0, 0) /\ Sched(r) = At(Clock(10, 5, 0))) =>
                    req[r].all_deps[1].minutes = 5
              /\ (ComputedAt(r) = Clock(10, 0, 0) /\ Sched(r) = At(Clock(9, 55, 0))) =>
                    req[r].all_deps[1].minutes = 0

\* a departure 30 s in the past, where the floor is -1 and the result 0
C12Witness ==
    \E r \in Requests :
        /\ OneTrip(r) /\ Est(r) = EmptyStr
        /\ Sched(r) = At(Clock(9, 59, 30)) /\ ComputedAt(r) = Clock(10, 0, 0)
        /\ (Sched(r).sec - ComputedAt(r)) \div 60 = -1
        /\ req[r].body.perth[1].minutes = 0

\* C13: a value in the token cache holds verification_token, module_id,
\* tab_id and timestamp and nothing else; the POST of a request whose token
\* came from the cache carries the three token headers of that entry and no
\* cookies.
C13NoCookiesCached ==
    /\ IsObject(tokenStore) =>
          DOMAIN tokenStore.value =
              {"verification_token", "module_id", "tab_id", "timestamp"}
    /\ \A r \in Requests :
          req[r].posts = 1 =>
              /\ req[r].sent.Requestverificationtoken = req[r].tokens.verification_token
              /\ req[r].sent.Moduleid = req[r].tokens.module_id
              /\ req[r].sent.Tabid = req[r].tokens.tab_id
              /\ TokenFromCache(r) => req[r].sent.cookies = JNull

\* one request sent its POST with the cookies of its own page fetch and
\* cached the token, another sent its POST with the cached token
C13Witness ==
    \E a, b \in Requests :
        /\ req[a].posts = 1 /\ req[a].gets = 1 /\ req[a].redis /\ ~req[a].failed
        /\ req[a].sent.cookies # JNull
        /\ req[b].posts = 1 /\ TokenFromCache(b)
        /\ req[b].sent.cookies = JNull
        /\ req[b].sent.Requestverificationtoken = req[a].sent.Requestverificationtoken

\* request r got a successful answer from the timetable endpoint
Parsed(r) ==
    /\ Miss(r) /\ req[r].posts = 1
    /\ IsObject(req[r].api) /\ req[r].api.kind = "http" /\ req[r].api.status = 200
    /\ req[r].api.isJson /\ Get(req[r].api.data, "result", "") = "success"
TripsOf(r) == Get(req[r].api.data, "trips", <<>>)
\* the well-formed records of the answer, and where the departure of record
\* i stands in all_deps
GoodTrips(r) ==
    {i \in 1..Len(TripsOf(r)) : WellFormed(TripsOf(r)[i], ComputedAt(r))}
PosOf(r, i) == Cardinality({j \in GoodTrips(r) : j <= i})
NoDirectionField(trip) == "Direction" \notin DOMAIN Get(trip, "Summary", EmptyObj)
InList(list, d) == \E k \in 1..Len(list) : list[k] = d

\* C14: the departure of a record without direction field has direction
\* "0"; it stands in the perth list at its rank when that is below 10, and
\* never in the south list.
C14DefaultDirection ==
    \A r \in Requests :
        Parsed(r) =>
            \A i \in GoodTrips(r) :
                NoDirectionField(TripsOf(r)[i]) =>
                    LET dep == req[r].all_deps[PosOf(r, i)]
                        rank == Rank(req[r].all_deps, "0", PosOf(r, i))
                    IN  /\ dep.destination = TripsOf(r)[i].DisplayTripTitle
                        /\ dep.direction = "0"
                        /\ rank < MaxPerDirection => req[r].body.perth[rank + 1] = dep
                        /\ ~InList(req[r].body.south, dep)

\* a record without direction field next to one of direction "1"
C14Witness ==
    \E r \in Requests :
        /\ Parsed(r)
        /\ \E i \in GoodTrips(r) :
              /\ NoDirectionField(TripsOf(r)[i])
              /\ InList(req[r].body.perth, req[r].all_deps[PosOf(r, i)])
        /\ req[r].body.south # <<>>

\* the steps of request r at the departure cache: the lookup on arrival and
\* the write before the answer
C15Step(r) ==
    /\ (req[r].pc = "idle" /\ req'[r].pc # "idle") =>
          LET e == depStore[req'[r].station]
              works == req'[r].redis /\ ~req'[r].failed
          IN  /\ req'[r].hit =>
                    /\ works /\ IsObject(e)
                    /\ now < e.expires
                    /\ req'[r].body = Pop(e.value, "cached_at")
              /\ (works /\ IsObject(e)) => req'[r].hit
              /\ (works /\ ~IsObject(e)) => req'[r].pc = "tokens"
    /\ (req[r].pc = "cache_departures" /\ req'[r].pc = "done" /\ ~req'[r].failed) =>
          depStore'[req[r].station] =
              [value |-> req[r].result, expires |-> now + DEPARTURE_CACHE_TTL]

\* an entry the store holds was written less than 30 s ago
C15Stored ==
    \A s \in Stations :
        IsObject(depStore[s]) =>
            /\ now < depStore[s].expires
            /\ depStore[s].expires <= now + DEPARTURE_CACHE_TTL

\* C15: an entry is written with a TTL of 30 s; a hit serves an entry the
\* store still holds, written less than 30 s before, whatever its cached_at;
\* a request that finds no entry is a miss, goes upstream and, when its Redis
\* calls work, writes the entry anew.
C15Ttl ==
    [][/\ \A r \in Requests : C15Step(r)
       /\ C15Stored'
       /\ \A r \in Requests : Miss(r)' => req'[r].gets + req'[r].posts >= 1]_vars

\* a request wrote the entry, the next request for the station came 30 s or
\* more after that, missed, fetched and wrote the entry anew
C15Witness ==
    \E r1, r2 \in Requests :
        /\ r2 = r1 + 1
        /\ Miss(r1) /\ Miss(r2)
        /\ req[r1].station = req[r2].station
        /\ req[r1].redis /\ req[r2].redis
        /\ ~req[r1].failed /\ ~req[r2].failed
        /\ req[r2].tCall - req[r1].tDone >= DEPARTURE_CACHE_TTL
        /\ req[r2].posts = 1
        /\ IsObject(depStore[req[r2].station])
        /\ depStore[req[r2].station].value = req[r2].result

\* a value with a date component: a full datetime, with or without offset
HasDateComponent(s) == s.form \in {"datetime", "offset"}
\* the instant a full datetime denotes, on the Perth wall clock
InstantOf(s) ==
    IF s.form = "offset"
    THEN s.day * SecondsPerDay + s.sec - s.off + PERTH_TZ
    ELSE s.day * SecondsPerDay + s.sec
\* the day at time t, in Perth and on the local wall clock of the instance
PerthDay(t) == t \div SecondsPerDay
LocalDay(t) == (t - PERTH_TZ + tz) \div SecondsPerDay

\* the departure instant of the record of request r: the estimate when there
\* is one, on the date of the scheduled time or on the day today when it has
\* no date of its own, and the scheduled time otherwise; ok = FALSE when the
\* value is no instant
DepartureInstant(r, today) ==
    LET none == [ok |-> FALSE, instant |-> 0]
        some(i) == [ok |-> TRUE, instant |-> i]
    IN  IF Est(r) # EmptyStr
        THEN IF HasDateComponent(Est(r)) THEN some(InstantOf(Est(r)))
             ELSE IF Est(r).form # "time" THEN none
             ELSE IF HasDateComponent(Sched(r))
                  THEN some(Sched(r).day * SecondsPerDay + Est(r).sec)
                  ELSE some(today * SecondsPerDay + Est(r).sec)
        ELSE IF HasDateComponent(Sched(r)) THEN some(InstantOf(Sched(r)))
             ELSE none
\* the departures of request r are those of that instant
ResolvedWith(r, today) ==
    IF DepartureInstant(r, today).ok
    THEN /\ Len(req[r].all_deps) = 1
         /\ req[r].all_deps[1].minutes =
               FloorClamp(DepartureInstant(r, today).instant - ComputedAt(r))
    ELSE req[r].all_deps = <<>>

\* C16 as stated: the minutes of a departure are those of the estimated time
\* when it is not empty and of the scheduled time otherwise; an estimate
\* without date is taken on the date of the scheduled time, or on today's
\* date when the scheduled time has no date either, today being the day of
\* the clock the instant is measured against (Perth time).
C16Instant ==
    \A r \in Requests :
        OneTrip(r) => ResolvedWith(r, PerthDay(ComputedAt(r)))

\* the same with the date of the instance's local wall clock for today,
\* which is what the code takes
C16InstantLocalDate ==
    \A r \in Requests :
        OneTrip(r) => ResolvedWith(r, LocalDay(ComputedAt(r)))

\* where the two dates are the same, the resolution is the stated one
C16SameDate ==
    \A r \in Requests :
        (OneTrip(r) /\ LocalDay(ComputedAt(r)) = PerthDay(ComputedAt(r))) =>
            ResolvedWith(r, PerthDay(ComputedAt(r)))

\* request r computed an empty result because it got no token, or because
\* the timetable query failed
EmptyByFailure(r) ==
    /\ Miss(r)
    /\ \/ NoTokenObtained(r)
       \/ req[r].posts = 1 /\ UpstreamFailed(req[r].api)
\* r2 came after r1 for the same station, less than 30 s after r1 was
\* answered, both on instances whose Redis calls work, and no request
\* between them wrote the entry of the station
WithinTtlOf(r1, r2) ==
    /\ r1 < r2
    /\ Done(r1) /\ Done(r2)
    /\ r1 \in req[r2].after
    /\ req[r1].station = req[r2].station
    /\ req[r1].redis /\ req[r2].redis
    /\ ~req[r1].failed /\ ~req[r2].failed
    /\ req[r2].tCall - req[r1].tDone < DEPARTURE_CACHE_TTL
    /\ \A m \in Requests :
          (r1 < m /\ m < r2) =>
              \/ req[m].hit
              \/ ~req[m].redis
              \/ req[m].station # req[r1].station

\* C17: the empty result of a request that got no token, or whose timetable
\* query failed, is cached: a request for the station within the next 30 s
\* is answered with that empty success result, without GET or POST.
C17EmptyCached ==
    \A r1, r2 \in Requests :
        (EmptyByFailure(r1) /\ WithinTtlOf(r1, r2)) =>
            /\ req[r1].all_deps = <<>>
            /\ ServedFromCache(r2)
            /\ EmptySuccess(r2)
            /\ req[r2].body = Pop(req[r1].result, "cached_at")

\* a request got no token and cached its empty result; the next one came
\* later, within 30 s, and was served from the cache
C17Witness ==
    \E r1, r2 \in Requests :
        /\ NoTokenObtained(r1) /\ WithinTtlOf(r1, r2)
        /\ req[r2].tCall > req[r1].tDone
        /\ req[r2].hit /\ req[r2].body.perth = <<>> /\ req[r2].body.south = <<>>

\* request w missed the cache and fetched for station s: its POST, when it
\* issued one, asked for s
FetchedFor(w, s) ==
    /\ Miss(w)
    /\ req[w].station = s
    /\ req[w].posts = 1 => req[w].sent.StationId = s

\* C18: the entry under the key of station s is the result of a request
\* that fetched for s; a success response to a request for s carries
\* station_id = s and is built from what that request fetched for s, or, on
\* a hit, is the result of another request that fetched for s.
C18Isolation ==
    /\ \A s \in Stations :
          IsObject(depStore[s]) =>
              /\ depStore[s].value.station_id = s
              /\ \E w \in Requests :
                    /\ FetchedFor(w, s) /\ req[w].redis
                    /\ depStore[s].value = req[w].result
    /\ \A r \in Requests :
          (Done(r) /\ req[r].status = 200) =>
              /\ req[r].body.station_id = req[r].station
              /\ IF req[r].hit
                 THEN \E w \in Requests \ {r} :
                          /\ FetchedFor(w, req[r].station) /\ req[w].redis
                          /\ req[r].body = Pop(req[w].result, "cached_at")
                 ELSE /\ FetchedFor(r, req[r].station)
                      /\ Pop(req[r].body, "cached_at") =
                            BuildResult(req[r].station, req[r].all_deps,
                                        req[r].result.last_updated)

\* the store holds the departures a request fetched for one station; a later
\* request for the other station, with Redis working, was not served from
\* that entry: it missed and fetched for its own station
C18Witness ==
    \E a, b \in Requests :
        /\ a \in req[b].after
        /\ req[a].station # req[b].station
        /\ FetchedFor(a, req[a].station) /\ req[a].redis
        /\ IsObject(depStore[req[a].station])
        /\ depStore[req[a].station].value = req[a].result
        /\ req[a].result.perth # <<>>
        /\ req[b].redis /\ ~req[b].failed
        /\ FetchedFor(b, req[b].station) /\ req[b].posts = 1
        /\ req[b].body.station_id = req[b].station

\* C19: every entry of the perth list has direction "0", every entry of the
\* south list has direction "1", no departure stands in both lists, and a
\* parsed departure of any other direction stands in neither.
C19Partition ==
    \A r \in Requests :
        (Done(r) /\ req[r].status = 200) =>
            /\ \A i \in 1..Len(req[r].body.perth) : req[r].body.perth[i].direction = "0"
            /\ \A j \in 1..Len(req[r].body.south) : req[r].body.south[j].direction = "1"
            /\ \A i \in 1..Len(req[r].body.perth) :
                  ~InList(req[r].body.south, req[r].body.perth[i])
            /\ \A k \in 1..Len(req[r].all_deps) :
                  req[r].all_deps[k].direction \notin {"0", "1"} =>
                      /\ ~InList(req[r].body.perth, req[r].all_deps[k])
                      /\ ~InList(req[r].body.south, req[r].all_deps[k])

\* an answer with a departure of direction "0", one of direction "1" and one
\* of direction "2"
C19Witness ==
    \E r \in Requests :
        /\ Parsed(r)
        /\ \E k \in 1..Len(req[r].all_deps) : req[r].all_deps[k].direction = "2"
        /\ req[r].body.perth # <<>>
        /\ req[r].body.south # <<>>

====
